---- MODULE Spec2Model ----
(***************************************************************************)
(* The interactive currency converter of main.js as a state machine.       *)
(*                                                                         *)
(* One step of the machine is what the program does between two reads of   *)
(* a line: it consumes the line the pending question() resolved with, runs *)
(* until the next question() is pending (or the process has exited), and   *)
(* leaves in `printed` everything it wrote to standard output on the way.  *)
(*                                                                         *)
(* A line of input is a sequence of one-character strings.  A JavaScript   *)
(* number is NaN, +/-Infinity or a finite value; finite values are kept as *)
(* exact reduced fractions n/d.  Every amount the model reads has at most  *)
(* four decimals and every price at most two, and on these values the      *)
(* IEEE-754 evaluation of the conversion formats to the same string as the *)
(* exact one.  Values of 1e21 and above, which toFixed prints in exponent  *)
(* notation, are outside the range of the model.                           *)
(***************************************************************************)
EXTENDS Integers, Sequences, FiniteSets, TLC

VARIABLES
    pc,                    \* the question() the program is suspended at, or "exited"
    result,                \* `result` of askForCurrenciesToConvert
    currencyToUsdPriceMap, \* the module-level price table
    knownCurrencies,       \* Communicator.knownCurrencies
    printed,               \* standard output written by the last step
    errors,                \* standard error written by the last step
    exitStatus,            \* <<>> while running, <<code>> after process.exit(code)
    lastRead,              \* what the last step consumed: the prompt and the line
    lastConversion         \* arguments of the last printConversionResult call

vars == <<pc, result, currencyToUsdPriceMap, knownCurrencies, printed, errors,
          exitStatus, lastRead, lastConversion>>

-----------------------------------------------------------------------------
(* JavaScript numbers *)

Abs(x) == IF x < 0 THEN -x ELSE x

Sign(x) == IF x < 0 THEN -1 ELSE IF x = 0 THEN 0 ELSE 1

RECURSIVE GCD(_, _)
GCD(a, b) == IF b = 0 THEN a ELSE GCD(b, a % b)

RECURSIVE Pow10(_)
Pow10(k) == IF k = 0 THEN 1 ELSE 10 * Pow10(k - 1)

NaN == [kind |-> "NaN", n |-> 0, d |-> 1]

Inf(sign) == [kind |-> "Infinity", n |-> sign, d |-> 1]

\* the finite number n/d (d > 0), reduced
Fin(n, d) ==
    LET g == GCD(Abs(n), d)
    IN  [kind |-> "finite", n |-> n \div g, d |-> d \div g]

\* the decimal literal m * 10^(-k), as written in the source: 113.5 is Dec(1135, 1)
Dec(m, k) == Fin(m, Pow10(k))

\* x * y
Mul(x, y) ==
    IF x.kind = "NaN" \/ y.kind = "NaN" THEN NaN
    ELSE IF x.kind = "Infinity" \/ y.kind = "Infinity"
         THEN IF x.n = 0 \/ y.n = 0 THEN NaN ELSE Inf(Sign(x.n) * Sign(y.n))
    ELSE LET g1 == GCD(Abs(x.n), y.d)
             g2 == GCD(Abs(y.n), x.d)
         IN  Fin((x.n \div g1) * (y.n \div g2), (x.d \div g2) * (y.d \div g1))

\* x / y
Div(x, y) ==
    IF x.kind = "NaN" \/ y.kind = "NaN" THEN NaN
    ELSE IF x.kind = "Infinity"
         THEN IF y.kind = "Infinity" THEN NaN
              ELSE Inf(x.n * (IF y.n < 0 THEN -1 ELSE 1))
    ELSE IF y.kind = "Infinity" THEN Fin(0, 1)
    ELSE IF y.n = 0 THEN (IF x.n = 0 THEN NaN ELSE Inf(Sign(x.n)))
    ELSE Mul(x, Fin(Sign(y.n) * y.d, Abs(y.n)))

\* x < y
Less(x, y) ==
    IF x.kind = "NaN" \/ y.kind = "NaN" THEN FALSE
    ELSE IF x.kind = "Infinity" THEN x.n < 0 /\ ~(y.kind = "Infinity" /\ y.n < 0)
    ELSE IF y.kind = "Infinity" THEN y.n > 0
    ELSE x.n * y.d < y.n * x.d

\* amount === NaN, which no value satisfies
isNaNByEquality(x) == FALSE

isNaN(x) == x.kind = "NaN"

-----------------------------------------------------------------------------
(* JavaScript strings *)

DecimalDigits == <<"0", "1", "2", "3", "4", "5", "6", "7", "8", "9">>

LowerCase == <<"a", "b", "c", "d", "e", "f", "g", "h", "i", "j", "k", "l", "m",
               "n", "o", "p", "q", "r", "s", "t", "u", "v", "w", "x", "y", "z">>

UpperCase == <<"A", "B", "C", "D", "E", "F", "G", "H", "I", "J", "K", "L", "M",
               "N", "O", "P", "Q", "R", "S", "T", "U", "V", "W", "X", "Y", "Z">>

WhiteSpace == {" ", "\t"}

Chars(s) == {s[i] : i \in 1..Len(s)}

IndexOf(c, s) == CHOOSE i \in 1..Len(s) : s[i] = c /\ \A j \in 1..(i - 1) : s[j] # c

\* the line left as typed
toUpperCaseAsTyped(s) == s

\* String.prototype.toUpperCase
toUpperCase(s) ==
    [i \in 1..Len(s) |->
        IF s[i] \in Chars(LowerCase) THEN UpperCase[IndexOf(s[i], LowerCase)] ELSE s[i]]

RECURSIVE TrimStart(_)
TrimStart(s) ==
    IF s # <<>> /\ Head(s) \in WhiteSpace THEN TrimStart(Tail(s)) ELSE s

RECURSIVE TrimEnd(_)
TrimEnd(s) ==
    IF s # <<>> /\ s[Len(s)] \in WhiteSpace THEN TrimEnd(SubSeq(s, 1, Len(s) - 1)) ELSE s

Trim(s) == TrimEnd(TrimStart(s))

IsDigits(s) == s # <<>> /\ \A i \in 1..Len(s) : s[i] \in Chars(DecimalDigits)

\* the value of a sequence of decimal digits
RECURSIVE DigitsValue(_)
DigitsValue(s) ==
    IF s = <<>> THEN 0
    ELSE 10 * DigitsValue(SubSeq(s, 1, Len(s) - 1)) + (IndexOf(s[Len(s)], DecimalDigits) - 1)

\* StrUnsignedDecimalLiteral without its sign: digits [. [digits]] or . digits,
\* each with an optional exponent part
UnsignedDecimal(s) ==
    LET hasExp   == \E i \in 1..Len(s) : s[i] \in {"e", "E"}
        expAt    == IF hasExp
                    THEN CHOOSE i \in 1..Len(s) :
                             s[i] \in {"e", "E"} /\ \A j \in 1..(i - 1) : s[j] \notin {"e", "E"}
                    ELSE Len(s) + 1
        mant     == SubSeq(s, 1, expAt - 1)
        expPart  == SubSeq(s, expAt + 1, Len(s))
        expNeg   == expPart # <<>> /\ Head(expPart) = "-"
        expDigs  == IF expPart # <<>> /\ Head(expPart) \in {"+", "-"}
                    THEN Tail(expPart) ELSE expPart
        hasDot   == "." \in Chars(mant)
        dotAt    == IF hasDot THEN IndexOf(".", mant) ELSE Len(mant) + 1
        intDigs  == SubSeq(mant, 1, dotAt - 1)
        fracDigs == SubSeq(mant, dotAt + 1, Len(mant))
        wellFormed ==
            /\ intDigs = <<>> \/ IsDigits(intDigs)
            /\ fracDigs = <<>> \/ IsDigits(fracDigs)
            /\ intDigs # <<>> \/ fracDigs # <<>>
            /\ hasExp => IsDigits(expDigs)
        exp      == IF hasExp THEN (IF expNeg THEN -1 ELSE 1) * DigitsValue(expDigs) ELSE 0
        scale    == Len(fracDigs) - exp
        m        == DigitsValue(intDigs \o fracDigs)
    IN  IF ~wellFormed THEN NaN
        ELSE IF scale >= 0 THEN Fin(m, Pow10(scale))
        ELSE Fin(m * Pow10(-scale), 1)

Neg(x) == IF x.kind = "NaN" THEN x ELSE [x EXCEPT !.n = -x.n]

InfinityLiteral == <<"I", "n", "f", "i", "n", "i", "t", "y">>

\* Number(string): StringToNumber, for decimal literals and Infinity (no line of
\* the model is a 0x, 0o or 0b literal)
Number(str) ==
    LET t        == Trim(str)
        signed   == t # <<>> /\ Head(t) \in {"+", "-"}
        unsigned == IF signed THEN Tail(t) ELSE t
        value    == IF unsigned = InfinityLiteral THEN Inf(1) ELSE UnsignedDecimal(unsigned)
    IN  IF t = <<>> THEN Fin(0, 1)
        ELSE IF signed /\ Head(t) = "-" THEN Neg(value)
        ELSE value

RECURSIVE IntToString(_)
IntToString(n) ==
    IF n < 10 THEN <<DecimalDigits[n + 1]>>
    ELSE IntToString(n \div 10) \o <<DecimalDigits[(n % 10) + 1]>>

RECURSIVE PadStart(_, _)
PadStart(s, len) == IF Len(s) >= len THEN s ELSE PadStart(<<"0">> \o s, len)

\* the integer n for which n / 10^digits - x is as close to zero as possible,
\* the larger one if there are two (x finite, x >= 0)
RECURSIVE ScaledDigits(_, _, _, _)
ScaledDigits(r, d, k, acc) ==
    IF k = 0 THEN acc + (IF 2 * r >= d THEN 1 ELSE 0)
    ELSE ScaledDigits((r * 10) % d, d, k - 1, acc * 10 + ((r * 10) \div d))

NearestScaled(x, digits) == ScaledDigits(x.n % x.d, x.d, digits, x.n \div x.d)

\* Number.prototype.toFixed(digits)
toFixed(x, digits) ==
    IF x.kind = "NaN" THEN <<"N", "a", "N">>
    ELSE IF x.kind = "Infinity"
         THEN (IF x.n < 0 THEN <<"-">> ELSE <<>>) \o InfinityLiteral
    ELSE LET n == NearestScaled(Fin(Abs(x.n), x.d), digits)
             m == PadStart(IntToString(n), digits + 1)
             k == Len(m)
         IN  (IF x.n < 0 THEN <<"-">> ELSE <<>>)
             \o SubSeq(m, 1, k - digits) \o <<".">> \o SubSeq(m, k - digits + 1, k)

-----------------------------------------------------------------------------
(* JavaScript objects and arrays *)

\* an object literal is the sequence of its entries, in insertion order
ObjectKeys(obj) == [i \in 1..Len(obj) |-> obj[i].key]

includes(arr, x) == \E i \in 1..Len(arr) : arr[i] = x

\* obj[key] in a numeric expression: a missing property is undefined, which
\* converts to NaN
Get(obj, key) ==
    IF includes(ObjectKeys(obj), key)
    THEN obj[CHOOSE i \in 1..Len(obj) : obj[i].key = key].value
    ELSE NaN

-----------------------------------------------------------------------------
(* The price table *)

USD == <<"U", "S", "D">>
JPY == <<"J", "P", "Y">>
EUR == <<"E", "U", "R">>
RUB == <<"R", "U", "B">>
GBP == <<"G", "B", "P">>

\* the table with the base entry left at 0
PriceMapLiteralZeroBase ==
    << [key |-> USD, value |-> Dec(0, 0)],
       [key |-> JPY, value |-> Dec(1135, 1)],
       [key |-> EUR, value |-> Dec(89, 2)],
       [key |-> RUB, value |-> Dec(7436, 2)],
       [key |-> GBP, value |-> Dec(75, 2)] >>

PriceMapLiteral ==
    << [key |-> USD, value |-> Dec(1, 0)],
       [key |-> JPY, value |-> Dec(1135, 1)],
       [key |-> EUR, value |-> Dec(89, 2)],
       [key |-> RUB, value |-> Dec(7436, 2)],
       [key |-> GBP, value |-> Dec(75, 2)] >>

-----------------------------------------------------------------------------
(* Standard output *)

\* one written line: fixed text, with the values a template interpolates
Line(text, amount, from, converted, to) ==
    [text |-> text, initialAmount |-> amount, currencyFrom |-> from,
     convertedAmount |-> converted, currencyTo |-> to]

Text(text) == Line(text, NaN, <<>>, <<>>, <<>>)

\* printIntroInfo
IntroInfo(priceMap, currencies) ==
    <<Text("Welcome to Currency Converter!")>>
    \o [i \in 1..Len(currencies) |->
           Line("1 USD equals", Get(priceMap, currencies[i]), <<>>, <<>>, currencies[i])]

\* printConversionResult
ConversionResult(currencyFrom, currencyTo, initialAmount, convertedAmount) ==
    Line("Result:", initialAmount, currencyFrom, convertedAmount, currencyTo)

\* Object.keys(commandsData)
CommandKeys == << <<"1">>, <<"2">> >>

\* top of the loop of askForCommand, up to the pending question
CommandPrompt ==
    <<Text("What do you want to do?"), Text("1-Convert currencies 2-Exit program")>>

\* top of the first loop of askForCurrenciesToConvert, up to the pending question
FromPrompt == <<Text("What do you want to convert?"), Text("From: ")>>

ToPrompt == <<Text("To: ")>>

AmountPrompt == <<Text("Amount: ")>>

-----------------------------------------------------------------------------
(* Input *)

RoundTripMaxAmount == 10

\* the lines typed at the command question
CommandLines == { <<"1">>, <<"2">>, <<"0">>, <<"9">>, <<>>, <<" ", "1">>, USD }

\* the lines typed at the From and To questions
CurrencyLines ==
    { USD, JPY, EUR, RUB, GBP, <<"u", "s", "d">>, <<"E", "u", "r">>, <<"X", "Y", "Z">>,
      <<>>, <<"2">> }

\* the lines typed at the Amount question
AmountLines ==
    { <<"1">>, <<"2">>, <<"1", "0">>, <<"1", "0", "0">>, InfinityLiteral,
      <<"0">>, <<"0", ".", "5">>, <<"-", "5">>, <<>>, <<"a", "b", "c">> }

EmptyResult == [currencyFrom |-> <<>>, currencyTo |-> <<>>]

NoConversion ==
    [currencyFrom |-> <<>>, currencyTo |-> <<>>, initialAmount |-> NaN,
     convertedAmount |-> <<>>, echoOf |-> <<>>]

\* the user may type back the converted amount just printed as the amount of the
\* opposite conversion
IsEcho(line) ==
    /\ lastConversion # NoConversion
    /\ line = lastConversion.convertedAmount
    /\ result.currencyFrom = lastConversion.currencyTo
    /\ result.currencyTo = lastConversion.currencyFrom

Echo ==
    IF /\ lastConversion # NoConversion
       /\ result.currencyFrom = lastConversion.currencyTo
       /\ result.currencyTo = lastConversion.currencyFrom
       /\ lastConversion.initialAmount.kind = "finite"
       /\ Less(lastConversion.initialAmount, Fin(RoundTripMaxAmount + 1, 1))
    THEN {lastConversion.convertedAmount}
    ELSE {}

Read(at, line) == [at |-> at, line |-> line, rejected |-> FALSE]

-----------------------------------------------------------------------------
(* The program *)

Init ==
    /\ currencyToUsdPriceMap = PriceMapLiteral
    /\ knownCurrencies = ObjectKeys(PriceMapLiteral)
    /\ printed = IntroInfo(PriceMapLiteral, ObjectKeys(PriceMapLiteral)) \o CommandPrompt
    /\ errors = <<>>
    /\ pc = "askForCommand"
    /\ result = EmptyResult
    /\ exitStatus = <<>>
    /\ lastRead = [at |-> "start", line |-> <<>>, rejected |-> FALSE]
    /\ lastConversion = NoConversion

\* the conversion without the price of the source currency
ConvertNoSourcePrice(priceMap, currencyFrom, currencyTo, amount) ==
    toFixed(Mul(Get(priceMap, currencyTo), amount), 4)

\* the conversion formatted with toFixed(2)
ConvertTwoDecimals(priceMap, currencyFrom, currencyTo, amount) ==
    LET priceUsd == Mul(Get(priceMap, USD), Get(priceMap, currencyFrom))
    IN  toFixed(Mul(Div(Get(priceMap, currencyTo), priceUsd), amount), 2)

\* the conversion of proceedConversion
Convert(priceMap, currencyFrom, currencyTo, amount) ==
    LET priceUsd == Mul(Get(priceMap, USD), Get(priceMap, currencyFrom))
    IN  toFixed(Mul(Div(Get(priceMap, currencyTo), priceUsd), amount), 4)

\* the command looked up after trimming the line
IsKnownCommandTrimmed(command) == includes(CommandKeys, Trim(command))

\* Object.keys(commandsData).includes(command)
IsKnownCommand(command) == includes(CommandKeys, command)

\* the check skipped for an empty line
IsKnownCurrencyOrEmpty(currency) == currency = <<>> \/ includes(knownCurrencies, currency)

\* this.knownCurrencies.includes(currency)
IsKnownCurrency(currency) == includes(knownCurrencies, currency)

\* amount <= 0
AmountNotPositive(amount) == amount.kind # "NaN" /\ ~Less(Fin(0, 1), amount)

\* amount < 1
AmountTooSmall(amount) == Less(amount, Fin(1, 1))

\* the exit action without process.exit: the loop of askForCommand goes on
ExitProgramReturns ==
    [printed |-> <<Text("Have a nice day!")>> \o CommandPrompt, exitStatus |-> <<>>,
     pc |-> "askForCommand"]

\* commandsData['2'].action: the farewell, then process.exit(0)
ExitProgram ==
    [printed |-> <<Text("Have a nice day!")>>, exitStatus |-> <<0>>, pc |-> "exited"]

\* askForCommand: a line is read at the command question
AskForCommand(command) ==
    /\ pc = "askForCommand"
    /\ lastRead' = Read("askForCommand", command)
    /\ IF ~IsKnownCommand(command)
       THEN /\ printed' = <<Text("Unknown input")>> \o CommandPrompt
            /\ UNCHANGED <<pc, result, exitStatus>>
       ELSE IF command = <<"1">>
       THEN /\ result' = EmptyResult
            /\ printed' = FromPrompt
            /\ pc' = "askFrom"
            /\ UNCHANGED exitStatus
       ELSE /\ printed' = ExitProgram.printed
            /\ exitStatus' = ExitProgram.exitStatus
            /\ pc' = ExitProgram.pc
            /\ UNCHANGED result
    /\ UNCHANGED <<currencyToUsdPriceMap, knownCurrencies, errors, lastConversion>>

\* the From question looking the line up among the commands first: "2" leaves
AskFromHonoursExit(line) ==
    /\ pc = "askFrom"
    /\ lastRead' = Read("askFrom", line)
    /\ LET currencyFrom == toUpperCase(line)
       IN  IF line = <<"2">>
           THEN /\ printed' = ExitProgram.printed
                /\ exitStatus' = ExitProgram.exitStatus
                /\ pc' = ExitProgram.pc
                /\ UNCHANGED result
           ELSE IF ~IsKnownCurrency(currencyFrom)
           THEN /\ printed' = <<Text("Unknown currency")>> \o FromPrompt
                /\ UNCHANGED <<pc, result, exitStatus>>
           ELSE /\ result' = [result EXCEPT !.currencyFrom = currencyFrom]
                /\ printed' = ToPrompt
                /\ pc' = "askTo"
                /\ UNCHANGED exitStatus
    /\ UNCHANGED <<currencyToUsdPriceMap, knownCurrencies, errors, lastConversion>>

\* the From loop followed at once by askForAmountToConvert, with no To loop
AskFromSkipsTarget(line) ==
    /\ pc = "askFrom"
    /\ lastRead' = Read("askFrom", line)
    /\ LET currencyFrom == toUpperCase(line)
       IN  IF ~IsKnownCurrency(currencyFrom)
           THEN /\ printed' = <<Text("Unknown currency")>> \o FromPrompt
                /\ UNCHANGED <<pc, result>>
           ELSE /\ result' = [result EXCEPT !.currencyFrom = currencyFrom]
                /\ printed' = AmountPrompt
                /\ pc' = "askAmount"
    /\ UNCHANGED <<currencyToUsdPriceMap, knownCurrencies, errors, exitStatus,
                   lastConversion>>

\* the From loop throwing UnknownCurrencyError on an unknown currency, caught by
\* proceedConversion: the message, then process.exit(1)
AskFromThrows(line) ==
    /\ pc = "askFrom"
    /\ lastRead' = Read("askFrom", line)
    /\ LET currencyFrom == toUpperCase(line)
       IN  IF ~IsKnownCurrency(currencyFrom)
           THEN /\ printed' = <<Text("Unknown currency")>>
                /\ exitStatus' = <<1>>
                /\ pc' = "exited"
                /\ UNCHANGED result
           ELSE /\ result' = [result EXCEPT !.currencyFrom = currencyFrom]
                /\ printed' = ToPrompt
                /\ pc' = "askTo"
                /\ UNCHANGED exitStatus
    /\ UNCHANGED <<currencyToUsdPriceMap, knownCurrencies, errors, lastConversion>>

\* askForCurrenciesToConvert: a line is read at the From question
AskFrom(line) ==
    /\ pc = "askFrom"
    /\ lastRead' = Read("askFrom", line)
    /\ LET currencyFrom == toUpperCase(line)
       IN  IF ~IsKnownCurrency(currencyFrom)
           THEN /\ printed' = <<Text("Unknown currency")>> \o FromPrompt
                /\ UNCHANGED <<pc, result>>
           ELSE /\ result' = [result EXCEPT !.currencyFrom = currencyFrom]
                /\ printed' = ToPrompt
                /\ pc' = "askTo"
    /\ UNCHANGED <<currencyToUsdPriceMap, knownCurrencies, errors, exitStatus,
                   lastConversion>>

\* one loop for both currencies: an unknown target starts the sub-flow again
AskToRestarts(line) ==
    /\ pc = "askTo"
    /\ lastRead' = Read("askTo", line)
    /\ LET currencyTo == toUpperCase(line)
       IN  IF ~IsKnownCurrency(currencyTo)
           THEN /\ printed' = <<Text("Unknown currency")>> \o FromPrompt
                /\ result' = EmptyResult
                /\ pc' = "askFrom"
           ELSE /\ result' = [result EXCEPT !.currencyTo = currencyTo]
                /\ printed' = AmountPrompt
                /\ pc' = "askAmount"
    /\ UNCHANGED <<currencyToUsdPriceMap, knownCurrencies, errors, exitStatus,
                   lastConversion>>

\* the To loop going round again after it has recorded the target
AskToNeverLeaves(line) ==
    /\ pc = "askTo"
    /\ lastRead' = Read("askTo", line)
    /\ LET currencyTo == toUpperCase(line)
       IN  IF ~IsKnownCurrency(currencyTo)
           THEN /\ printed' = <<Text("Unknown currency")>> \o ToPrompt
                /\ UNCHANGED result
           ELSE /\ result' = [result EXCEPT !.currencyTo = currencyTo]
                /\ printed' = ToPrompt
    /\ UNCHANGED <<pc, currencyToUsdPriceMap, knownCurrencies, errors, exitStatus,
                   lastConversion>>

\* the To loop without its membership check
AskToUnchecked(line) ==
    /\ pc = "askTo"
    /\ lastRead' = Read("askTo", line)
    /\ result' = [result EXCEPT !.currencyTo = toUpperCase(line)]
    /\ printed' = AmountPrompt
    /\ pc' = "askAmount"
    /\ UNCHANGED <<currencyToUsdPriceMap, knownCurrencies, errors, exitStatus,
                   lastConversion>>

\* askForCurrenciesToConvert: a line is read at the To question
AskTo(line) ==
    /\ pc = "askTo"
    /\ lastRead' = Read("askTo", line)
    /\ LET currencyTo == toUpperCase(line)
       IN  IF ~IsKnownCurrency(currencyTo)
           THEN /\ printed' = <<Text("Unknown currency")>> \o ToPrompt
                /\ UNCHANGED <<pc, result>>
           ELSE /\ result' = [result EXCEPT !.currencyTo = currencyTo]
                /\ printed' = AmountPrompt
                /\ pc' = "askAmount"
    /\ UNCHANGED <<currencyToUsdPriceMap, knownCurrencies, errors, exitStatus,
                   lastConversion>>

\* the currencies kept in one object for the whole session: once a conversion
\* has been printed, the next ones print its currencies again
AskAmountLeftover(line) ==
    /\ pc = "askAmount"
    /\ lastRead' = Read("askAmount", line)
    /\ LET amount == Number(line)
           kept == IF lastConversion # NoConversion
                   THEN [currencyFrom |-> lastConversion.currencyFrom,
                         currencyTo |-> lastConversion.currencyTo]
                   ELSE result
       IN  IF isNaN(amount)
           THEN /\ printed' = <<Text("The amount has to be a number")>> \o AmountPrompt
                /\ UNCHANGED <<pc, result, lastConversion>>
           ELSE IF AmountTooSmall(amount)
           THEN /\ printed' = <<Text("The amount cannot be less than 1")>> \o AmountPrompt
                /\ UNCHANGED <<pc, result, lastConversion>>
           ELSE LET convertedAmount ==
                        Convert(currencyToUsdPriceMap, kept.currencyFrom,
                                kept.currencyTo, amount)
                IN  /\ printed' =
                           <<ConversionResult(kept.currencyFrom, kept.currencyTo,
                                              amount, convertedAmount)>>
                           \o CommandPrompt
                    /\ lastConversion' =
                           [currencyFrom |-> kept.currencyFrom,
                            currencyTo |-> kept.currencyTo,
                            initialAmount |-> amount,
                            convertedAmount |-> convertedAmount,
                            echoOf |-> <<>>]
                    /\ result' = EmptyResult
                    /\ pc' = "askForCommand"
    /\ UNCHANGED <<currencyToUsdPriceMap, knownCurrencies, errors, exitStatus>>

\* proceedConversion not followed by the next turn of the loop of
\* askForCommand: the result is printed and the session is over
AskAmountThenLeaves(line) ==
    /\ pc = "askAmount"
    /\ lastRead' = Read("askAmount", line)
    /\ LET amount == Number(line)
       IN  IF isNaN(amount)
           THEN /\ printed' = <<Text("The amount has to be a number")>> \o AmountPrompt
                /\ UNCHANGED <<pc, result, lastConversion, exitStatus>>
           ELSE IF AmountTooSmall(amount)
           THEN /\ printed' = <<Text("The amount cannot be less than 1")>> \o AmountPrompt
                /\ UNCHANGED <<pc, result, lastConversion, exitStatus>>
           ELSE LET convertedAmount ==
                        Convert(currencyToUsdPriceMap, result.currencyFrom,
                                result.currencyTo, amount)
                IN  /\ printed' =
                           <<ConversionResult(result.currencyFrom, result.currencyTo,
                                              amount, convertedAmount)>>
                    /\ lastConversion' =
                           [currencyFrom |-> result.currencyFrom,
                            currencyTo |-> result.currencyTo,
                            initialAmount |-> amount,
                            convertedAmount |-> convertedAmount,
                            echoOf |-> <<>>]
                    /\ result' = EmptyResult
                    /\ exitStatus' = <<0>>
                    /\ pc' = "exited"
    /\ UNCHANGED <<currencyToUsdPriceMap, knownCurrencies, errors>>

\* askForAmountToConvert: a line is read at the Amount question; an accepted
\* amount returns to proceedConversion, which converts and prints, and then to
\* the loop of askForCommand
AskAmount(line) ==
    /\ pc = "askAmount"
    /\ lastRead' = Read("askAmount", line)
    /\ LET amount == Number(line)
       IN  IF isNaN(amount)
           THEN /\ printed' = <<Text("The amount has to be a number")>> \o AmountPrompt
                /\ UNCHANGED <<pc, result, lastConversion>>
           ELSE IF AmountTooSmall(amount)
           THEN /\ printed' = <<Text("The amount cannot be less than 1")>> \o AmountPrompt
                /\ UNCHANGED <<pc, result, lastConversion>>
           ELSE LET convertedAmount ==
                        Convert(currencyToUsdPriceMap, result.currencyFrom,
                                result.currencyTo, amount)
                IN  /\ printed' =
                           <<ConversionResult(result.currencyFrom, result.currencyTo,
                                              amount, convertedAmount)>>
                           \o CommandPrompt
                    /\ lastConversion' =
                           [currencyFrom |-> result.currencyFrom,
                            currencyTo |-> result.currencyTo,
                            initialAmount |-> amount,
                            convertedAmount |-> convertedAmount,
                            echoOf |-> IF IsEcho(line)
                                       THEN <<[currencyFrom |-> lastConversion.currencyFrom,
                                               currencyTo |-> lastConversion.currencyTo,
                                               initialAmount |-> lastConversion.initialAmount]>>
                                       ELSE <<>>]
                    /\ result' = EmptyResult
                    /\ pc' = "askForCommand"
    /\ UNCHANGED <<currencyToUsdPriceMap, knownCurrencies, errors, exitStatus>>

-----------------------------------------------------------------------------
(* Errors *)

\* what question() can reject with, and the classes main.js declares
QuestionErrors == {"Error"}

ErrorClasses == {"Error", "RecoverableError", "UnknownCurrencyError"}

InstanceOfRecoverableError(err) == err \in {"RecoverableError", "UnknownCurrencyError"}

Message(err) == IF err = "UnknownCurrencyError" THEN "Unknown currency" ELSE err

\* catch (err) of proceedConversion
ProceedConversionCatch(err) ==
    IF InstanceOfRecoverableError(err)
    THEN [printed |-> <<Text(Message(err))>>, exitStatus |-> <<1>>, thrown |-> <<>>]
    ELSE [printed |-> <<>>, exitStatus |-> <<>>, thrown |-> <<err>>]

\* main().catch leaving with process.exit(0)
MainCatchExitZero(err) == [errors |-> <<err>>, exitStatus |-> <<0>>]

\* main().catch
MainCatch(err) == [errors |-> <<err>>, exitStatus |-> <<1>>]

\* an error thrown where the pending question is awaited, followed to the exit
Thrown(at, err) ==
    LET inner == IF at \in {"askFrom", "askTo", "askAmount"}
                 THEN ProceedConversionCatch(err)
                 ELSE [printed |-> <<>>, exitStatus |-> <<>>, thrown |-> <<err>>]
    IN  IF inner.thrown = <<>>
        THEN [printed |-> inner.printed, errors |-> <<>>, exitStatus |-> inner.exitStatus]
        ELSE [printed |-> inner.printed, errors |-> MainCatch(inner.thrown[1]).errors,
              exitStatus |-> MainCatch(inner.thrown[1]).exitStatus]

\* the pending question rejects
QuestionRejects(err) ==
    /\ pc # "exited"
    /\ lastRead' = [at |-> pc, line |-> <<>>, rejected |-> TRUE]
    /\ printed' = Thrown(pc, err).printed
    /\ errors' = Thrown(pc, err).errors
    /\ exitStatus' = Thrown(pc, err).exitStatus
    /\ pc' = "exited"
    /\ UNCHANGED <<result, currencyToUsdPriceMap, knownCurrencies, lastConversion>>

Next ==
    \/ \E line \in CommandLines : AskForCommand(line)
    \/ \E line \in CurrencyLines : AskFrom(line)
    \/ \E line \in CurrencyLines : AskTo(line)
    \/ \E line \in AmountLines \cup Echo : AskAmount(line)
    \/ \E err \in QuestionErrors : QuestionRejects(err)

Spec == Init /\ [][Next]_vars

\* the lines of a session watched for progress: at each question one refused
\* line and the accepted ones
LiveCommandLines == { <<"1">>, <<"2">>, <<"9">> }

LiveCurrencyLines == { USD, <<"E", "u", "r">>, <<"X", "Y", "Z">> }

LiveAmountLines == { <<"1">>, <<"0">>, <<"a", "b", "c">> }

\* the user types a line that the pending question of the sub-flow accepts
AcceptedAtFrom == \E line \in LiveCurrencyLines : AskFrom(line) /\ pc' = "askTo"

AcceptedAtTo == \E line \in LiveCurrencyLines : AskTo(line) /\ pc' = "askAmount"

AcceptedAtAmount ==
    \E line \in LiveAmountLines : AskAmount(line) /\ pc' = "askForCommand"

LiveNext ==
    \/ \E line \in LiveCommandLines : AskForCommand(line)
    \/ \E line \in LiveCurrencyLines : AskFrom(line)
    \/ \E line \in LiveCurrencyLines : AskTo(line)
    \/ \E line \in LiveAmountLines : AskAmount(line)
    \/ \E err \in QuestionErrors : QuestionRejects(err)

\* the session with a user who, at each question of the sub-flow, does not go
\* on typing refused lines forever: weak fairness of the three accepting
\* steps, that of the step at the Amount question written out, with
\* pc = "askAmount" for its enabling condition (the line "1" is accepted there
\* in every state)
LiveSpec ==
    /\ Init /\ [][LiveNext]_vars
    /\ WF_vars(AcceptedAtFrom)
    /\ WF_vars(AcceptedAtTo)
    /\ []<>(pc # "askAmount") \/ []<><<AcceptedAtAmount>>_vars

-----------------------------------------------------------------------------
(* Properties *)

\* the step reads `lastRead'.line` at the question `at`
ReadsAt(at) == pc = at /\ lastRead'.at = at /\ ~lastRead'.rejected

\* the rates as the specification lists them, in hundredths
RateInHundredths(currency) ==
    CASE currency = USD -> 100
      [] currency = JPY -> 11350
      [] currency = EUR -> 89
      [] currency = RUB -> 7436
      [] currency = GBP -> 75

Rate(currency) == Fin(RateInHundredths(currency), 100)

\* digits, a point, and exactly `digits` more digits
IsFixedPoint(str, digits) ==
    /\ Len(str) >= digits + 2
    /\ str[Len(str) - digits] = "."
    /\ \A i \in 1..Len(str) : i # Len(str) - digits => str[i] \in Chars(DecimalDigits)

\* the number a fixed-point string denotes, in units of 10^(-digits)
Unscaled(str, digits) ==
    DigitsValue(SubSeq(str, 1, Len(str) - digits - 1)
                \o SubSeq(str, Len(str) - digits + 1, Len(str)))

\* a finite amount of at most four decimals, in units of 10^(-4)
InTenThousandths(x) == x.n * (10000 \div x.d)

\* C1: at the command question, a line that is not exactly "1" or "2" prints
\* "Unknown input", runs no action, changes nothing of the session and shows
\* the command prompt again.
C1_UnknownInputReprompts ==
    [][ (ReadsAt("askForCommand") /\ lastRead'.line \notin {<<"1">>, <<"2">>})
        => /\ printed' = <<Text("Unknown input"), Text("What do you want to do?"),
                           Text("1-Convert currencies 2-Exit program")>>
           /\ pc' = "askForCommand"
           /\ UNCHANGED <<result, exitStatus, errors, lastConversion,
                          currencyToUsdPriceMap, knownCurrencies>> ]_vars

C1_Witness ==
    /\ lastRead = [at |-> "askForCommand", line |-> <<" ", "1">>, rejected |-> FALSE]
    /\ pc = "askForCommand"
    /\ printed[1] = Text("Unknown input")
    /\ lastConversion # NoConversion

\* C2: the exit command read at the command question prints the farewell and
\* nothing after it, ends the process with status 0, and the process takes no
\* step after it has exited.
C2_ExitTerminates ==
    [][ /\ pc # "exited"
        /\ (ReadsAt("askForCommand") /\ lastRead'.line = <<"2">>)
           => /\ printed' = <<Text("Have a nice day!")>>
              /\ exitStatus' = <<0>>
              /\ pc' = "exited" ]_vars

C2_Witness ==
    /\ lastRead = [at |-> "askForCommand", line |-> <<"2">>, rejected |-> FALSE]
    /\ pc = "exited"
    /\ exitStatus = <<0>>
    /\ lastConversion # NoConversion

\* C3: at the From and at the To question, a line whose upper-cased form is no
\* key of the rate table prints "Unknown currency" and asks the same question
\* again; the sub-flow stays where it is and records no currency.
C3_UnknownCurrencyReprompts ==
    [][ \A at \in {"askFrom", "askTo"} :
          (ReadsAt(at) /\ toUpperCase(lastRead'.line) \notin {USD, JPY, EUR, RUB, GBP})
          => /\ printed' = <<Text("Unknown currency")>>
                           \o (IF at = "askFrom"
                               THEN <<Text("What do you want to convert?"), Text("From: ")>>
                               ELSE <<Text("To: ")>>)
             /\ pc' = at
             /\ result' = result
             /\ lastConversion' = lastConversion ]_vars

C3_Witness ==
    /\ lastRead = [at |-> "askTo", line |-> <<"X", "Y", "Z">>, rejected |-> FALSE]
    /\ pc = "askTo"
    /\ result = [currencyFrom |-> EUR, currencyTo |-> <<>>]
    /\ printed = <<Text("Unknown currency"), Text("To: ")>>

\* C4: at the Amount question, a line that does not parse as a number prints
\* "The amount has to be a number" and asks for the amount again; nothing is
\* converted and no result is printed.
C4_NotANumberReprompts ==
    [][ (ReadsAt("askAmount") /\ Number(lastRead'.line).kind = "NaN")
        => /\ printed' = <<Text("The amount has to be a number"), Text("Amount: ")>>
           /\ pc' = "askAmount"
           /\ result' = result
           /\ lastConversion' = lastConversion ]_vars

C4_Witness ==
    /\ lastRead = [at |-> "askAmount", line |-> <<"a", "b", "c">>, rejected |-> FALSE]
    /\ pc = "askAmount"
    /\ printed = <<Text("The amount has to be a number"), Text("Amount: ")>>

\* a number below 1: a finite value n/d with n < d, or -Infinity
BelowOne(x) ==
    \/ x.kind = "finite" /\ x.n < x.d
    \/ x.kind = "Infinity" /\ x.n < 0

\* C5: at the Amount question, a line that parses to a number below 1 prints
\* "The amount cannot be less than 1" and asks for the amount again; every
\* amount a conversion was computed from is a number that is at least 1.
C5_BelowOneReprompts ==
    /\ [][ (ReadsAt("askAmount") /\ BelowOne(Number(lastRead'.line)))
           => /\ printed' = <<Text("The amount cannot be less than 1"), Text("Amount: ")>>
              /\ pc' = "askAmount"
              /\ result' = result
              /\ lastConversion' = lastConversion ]_vars
    /\ [](lastConversion # NoConversion
          => /\ lastConversion.initialAmount.kind # "NaN"
             /\ ~BelowOne(lastConversion.initialAmount))

C5_Witness ==
    /\ lastRead = [at |-> "askAmount", line |-> <<"0", ".", "5">>, rejected |-> FALSE]
    /\ pc = "askAmount"
    /\ printed = <<Text("The amount cannot be less than 1"), Text("Amount: ")>>

\* C6: for every pair of known currencies and every accepted amount, the
\* converted amount printed is priceOf(to) / (priceOf(USD) * priceOf(from)) * amount
\* rounded to exactly 4 decimal places, as a fixed-point string; 1 EUR to JPY
\* prints "127.5281" and 100 USD to GBP prints "75.0000".
C6_ConvertedAmountHasFourDecimals ==
    lastConversion # NoConversion
    => LET c     == lastConversion
           exact == Mul(Div(Rate(c.currencyTo), Mul(Rate(USD), Rate(c.currencyFrom))),
                        c.initialAmount)
       IN  /\ IsFixedPoint(c.convertedAmount, 4)
           /\ Unscaled(c.convertedAmount, 4) = NearestScaled(exact, 4)
           /\ (c.currencyFrom = EUR /\ c.currencyTo = JPY /\ c.initialAmount = Fin(1, 1))
              => c.convertedAmount = <<"1", "2", "7", ".", "5", "2", "8", "1">>
           /\ (c.currencyFrom = USD /\ c.currencyTo = GBP /\ c.initialAmount = Fin(100, 1))
              => c.convertedAmount = <<"7", "5", ".", "0", "0", "0", "0">>

\* the printed string denotes the amount, to 4 decimal places
SameToFourDecimals(str, amount) ==
    LET out == Number(str)
    IN  IF amount.kind # "finite" THEN out = amount
        ELSE /\ out.kind = "finite"
             /\ 20000 * Abs(out.n * amount.d - amount.n * out.d) <= out.d * amount.d

\* C7: a To line naming the currency already recorded as source is accepted
\* like any other known currency, and a conversion from a currency to itself
\* prints the input amount, to 4 decimal places; 10 USD to USD prints "10.0000".
C7_SameCurrencyIsIdentity ==
    /\ [][ (ReadsAt("askTo") /\ toUpperCase(lastRead'.line) = result.currencyFrom)
           => /\ pc' = "askAmount"
              /\ result' = [currencyFrom |-> result.currencyFrom,
                            currencyTo |-> result.currencyFrom] ]_vars
    /\ []((lastConversion # NoConversion
           /\ lastConversion.currencyFrom = lastConversion.currencyTo)
          => /\ SameToFourDecimals(lastConversion.convertedAmount,
                                   lastConversion.initialAmount)
             /\ (lastConversion.currencyFrom = USD
                 /\ lastConversion.initialAmount = Fin(10, 1))
                => lastConversion.convertedAmount = <<"1", "0", ".", "0", "0", "0", "0">>)

C7_Witness ==
    /\ lastConversion # NoConversion
    /\ lastConversion.currencyFrom = RUB
    /\ lastConversion.currencyTo = RUB
    /\ lastConversion.initialAmount = Fin(10, 1)
    /\ lastConversion.convertedAmount = <<"1", "0", ".", "0", "0", "0", "0">>

\* the conversion just printed went from Y back to X with the amount an earlier
\* conversion of A from X to Y had printed, and its result is within
\* (1 + price(X) / price(Y)) / 2 units of the 4th decimal of A (an infinite A
\* comes back infinite)
ReconstructsOriginal(c) ==
    /\ c.echoOf # <<>>
    /\ LET origin == c.echoOf[1]
           X == origin.currencyFrom
           Y == origin.currencyTo
       IN  /\ c.currencyFrom = Y
           /\ c.currencyTo = X
           /\ IF origin.initialAmount.kind # "finite"
              THEN Number(c.convertedAmount) = origin.initialAmount
              ELSE /\ IsFixedPoint(c.convertedAmount, 4)
                   /\ 2 * RateInHundredths(Y)
                        * Abs(Unscaled(c.convertedAmount, 4)
                              - InTenThousandths(origin.initialAmount))
                      <= RateInHundredths(Y) + RateInHundredths(X)

C9_RateTableIsFixed ==
    /\ currencyToUsdPriceMap =
           << [key |-> USD, value |-> Fin(1, 1)],
              [key |-> JPY, value |-> Fin(227, 2)],
              [key |-> EUR, value |-> Fin(89, 100)],
              [key |-> RUB, value |-> Fin(1859, 25)],
              [key |-> GBP, value |-> Fin(3, 4)] >>
    /\ \A i \in 1..Len(currencyToUsdPriceMap) :
           /\ currencyToUsdPriceMap[i].value.kind = "finite"
           /\ currencyToUsdPriceMap[i].value.n > 0
           /\ \A j \in 1..Len(currencyToUsdPriceMap) :
                  currencyToUsdPriceMap[i].key = currencyToUsdPriceMap[j].key => i = j
    /\ Get(currencyToUsdPriceMap, USD) = Fin(1, 1)
    /\ knownCurrencies = <<USD, JPY, EUR, RUB, GBP>>

C9_Witness ==
    /\ lastConversion # NoConversion
    /\ lastConversion.echoOf # <<>>
    /\ pc = "exited"
    /\ Get(currencyToUsdPriceMap, lastConversion.currencyTo) = Rate(lastConversion.currencyTo)

Questions == {"askForCommand", "askFrom", "askTo", "askAmount"}

\* C11: whatever line is read at whatever question, no error is raised, and
\* the process ends on that line exactly when it is the exit command "2" read
\* at the command question; after every other line the process is running,
\* without an exit status.
C11_OnlyExitCommandTerminates ==
    [][ \A at \in Questions :
          ReadsAt(at)
          => /\ errors' = <<>>
             /\ pc' = "exited" <=> (at = "askForCommand" /\ lastRead'.line = <<"2">>)
             /\ pc' # "exited" => exitStatus' = <<>> ]_vars

C11_Witness ==
    /\ lastRead = [at |-> "askAmount", line |-> <<"-", "5">>, rejected |-> FALSE]
    /\ pc = "askAmount"
    /\ exitStatus = <<>>
    /\ errors = <<>>
    /\ printed[1] = Text("The amount cannot be less than 1")
    /\ lastConversion # NoConversion

\* the line is accepted at the Amount question: it parses to a number that is
\* not below 1
IsAcceptedAmount(line) == Number(line).kind # "NaN" /\ ~BelowOne(Number(line))

\* C12: the step that accepts the amount prints the result line and, after
\* it, the command menu, and leaves the session at the command question; in
\* every state that shows a result line the session is at the command
\* question, running, and the convert command can be read again, starting the
\* next conversion.
C12_ResultReturnsToCommand ==
    /\ [][ (ReadsAt("askAmount") /\ IsAcceptedAmount(lastRead'.line))
           => /\ Len(printed') = 3
              /\ printed'[1].text = "Result:"
              /\ printed'[2] = Text("What do you want to do?")
              /\ printed'[3] = Text("1-Convert currencies 2-Exit program")
              /\ pc' = "askForCommand"
              /\ exitStatus' = <<>> ]_vars
    /\ []((\E i \in 1..Len(printed) : printed[i].text = "Result:")
          => /\ pc = "askForCommand"
             /\ exitStatus = <<>>
             /\ ENABLED (AskForCommand(<<"1">>) /\ pc' = "askFrom"))

C12_Witness ==
    /\ pc = "askForCommand"
    /\ Len(printed) = 3
    /\ printed[1].text = "Result:"
    /\ printed[3] = Text("1-Convert currencies 2-Exit program")
    /\ lastRead.at = "askAmount"
    /\ lastConversion.echoOf # <<>>

KnownCodes == {USD, JPY, EUR, RUB, GBP}

HasResultLine(out) == \E i \in 1..Len(out) : out[i].text = "Result:"

\* C13: the sub-flow moves one way only, from the From question to the To
\* question to the Amount question and from there to the result: at the From
\* question nothing is recorded, at the To question the source and only the
\* source, at the Amount question both currencies; a step prints a result
\* line, and then a single one, exactly when it accepts the amount at the
\* Amount question, and that step ends the sub-flow, so that the next result
\* needs another convert command.
C13_SubflowOrder ==
    /\ [][ \A at \in Questions :
             ReadsAt(at)
             => /\ at = "askForCommand" => pc' \in {"askForCommand", "askFrom", "exited"}
                /\ at = "askFrom" => pc' \in {"askFrom", "askTo"}
                /\ at = "askTo" => pc' \in {"askTo", "askAmount"}
                /\ at = "askAmount" => pc' \in {"askAmount", "askForCommand"}
                /\ pc' = "askFrom" /\ at # "askFrom" => lastRead'.line = <<"1">>
                /\ HasResultLine(printed')
                   <=> (at = "askAmount" /\ IsAcceptedAmount(lastRead'.line))
                /\ HasResultLine(printed')
                   => /\ pc' = "askForCommand"
                      /\ Cardinality({i \in 1..Len(printed') :
                                         printed'[i].text = "Result:"}) = 1
                      /\ printed'[1].convertedAmount
                           = Convert(currencyToUsdPriceMap, result.currencyFrom,
                                     result.currencyTo, Number(lastRead'.line)) ]_vars
    /\ [](/\ pc = "askFrom" => result = [currencyFrom |-> <<>>, currencyTo |-> <<>>]
          /\ pc = "askTo" => result.currencyFrom \in KnownCodes /\ result.currencyTo = <<>>
          /\ pc = "askAmount" => result.currencyFrom \in KnownCodes
                                 /\ result.currencyTo \in KnownCodes)

C13_Witness ==
    /\ pc = "askForCommand"
    /\ lastRead = [at |-> "askAmount", line |-> <<"1">>, rejected |-> FALSE]
    /\ printed[1] = ConversionResult(EUR, JPY, Fin(1, 1),
                                     <<"1", "2", "7", ".", "5", "2", "8", "1">>)
    /\ Len(printed) = 3

\* the lookup currencyToUsdPriceMap[currency] yields a price
LookupSucceeds(currency) ==
    /\ includes(ObjectKeys(currencyToUsdPriceMap), currency)
    /\ Get(currencyToUsdPriceMap, currency).kind = "finite"

\* C14: the step that computes a conversion finds both recorded currencies
\* among the keys of the rate table and both prices by lookup, and so does
\* every conversion on record; no state shows the outcome of the recoverable
\* unknown-currency path: status 1 is only ever the outcome of an error that
\* is not recoverable, logged to the error stream with nothing printed.
C14_LookupsSucceed ==
    /\ [][ (ReadsAt("askAmount") /\ IsAcceptedAmount(lastRead'.line))
           => /\ LookupSucceeds(result.currencyFrom)
              /\ LookupSucceeds(result.currencyTo)
              /\ LookupSucceeds(USD)
              /\ exitStatus' = <<>> ]_vars
    /\ [](/\ lastConversion # NoConversion
             => /\ LookupSucceeds(lastConversion.currencyFrom)
                /\ LookupSucceeds(lastConversion.currencyTo)
                /\ lastConversion.convertedAmount # <<"N", "a", "N">>
          /\ exitStatus = <<1>>
             => /\ lastRead.rejected
                /\ printed = <<>>
                /\ Len(errors) = 1
                /\ ~InstanceOfRecoverableError(errors[1])
          /\ \A i \in 1..Len(printed) :
                printed[i] = Text("Unknown currency") => pc \in {"askFrom", "askTo"})

C14_Witness ==
    /\ pc = "askForCommand"
    /\ lastRead.at = "askAmount"
    /\ lastConversion.currencyFrom = GBP
    /\ lastConversion.currencyTo = RUB
    /\ lastConversion.initialAmount = Fin(100, 1)
    /\ exitStatus = <<>>

InSubflow == pc \in {"askFrom", "askTo", "askAmount"}

\* C15: with a user who eventually types an accepted line at each of the
\* three questions, a sub-flow that has started leads to a state where its
\* result line is printed and the session is back at the command question,
\* unless the question itself fails; and a refused line at a question of the
\* sub-flow leaves the sub-flow at that question.
C15_SubflowCompletes ==
    /\ InSubflow ~> \/ pc = "askForCommand" /\ HasResultLine(printed)
                    \/ pc = "exited" /\ lastRead.rejected
    /\ [][ \A at \in {"askFrom", "askTo", "askAmount"} :
             (ReadsAt(at) /\ Head(printed').text \in
                  {"Unknown currency", "The amount has to be a number",
                   "The amount cannot be less than 1"})
             => pc' = at /\ exitStatus' = <<>> ]_vars

C15_Witness ==
    /\ pc = "askForCommand"
    /\ HasResultLine(printed)
    /\ lastRead = [at |-> "askAmount", line |-> <<"1">>, rejected |-> FALSE]
    /\ lastConversion.currencyFrom = EUR
    /\ lastConversion.currencyTo = USD

\* the line is the code, up to the case of its letters
DiffersOnlyInCase(line, code) ==
    /\ Len(line) = Len(code)
    /\ \A i \in 1..Len(line) :
          \/ line[i] = code[i]
          \/ \E k \in 1..Len(LowerCase) : line[i] = LowerCase[k] /\ code[i] = UpperCase[k]

\* C16: at the From and at the To question a line that is a key of the rate
\* table up to letter case is accepted and the key itself, in upper case, is
\* what is recorded ("usd" records USD, "Eur" records EUR); every currency on
\* record and every currency in a printed result line is a key of the table.
C16_CurrencyIsUpperCased ==
    /\ [][ \A code \in KnownCodes :
             /\ (ReadsAt("askFrom") /\ DiffersOnlyInCase(lastRead'.line, code))
                => pc' = "askTo" /\ result'.currencyFrom = code
             /\ (ReadsAt("askTo") /\ DiffersOnlyInCase(lastRead'.line, code))
                => pc' = "askAmount" /\ result'.currencyTo = code ]_vars
    /\ [](/\ result.currencyFrom \in KnownCodes \cup {<<>>}
          /\ result.currencyTo \in KnownCodes \cup {<<>>}
          /\ lastConversion # NoConversion
             => /\ lastConversion.currencyFrom \in KnownCodes
                /\ lastConversion.currencyTo \in KnownCodes
          /\ \A i \in 1..Len(printed) :
                printed[i].text = "Result:"
                => /\ printed[i].currencyFrom \in KnownCodes
                   /\ printed[i].currencyTo \in KnownCodes)

C16_Witness ==
    /\ pc = "askAmount"
    /\ lastRead = [at |-> "askTo", line |-> <<"E", "u", "r">>, rejected |-> FALSE]
    /\ result = [currencyFrom |-> USD, currencyTo |-> EUR]
    /\ printed = <<Text("Amount: ")>>

\* the line names no key of the rate table, in whatever case
IsRefusedCurrency(line) == \A code \in KnownCodes : ~DiffersOnlyInCase(line, code)

\* C17: a refused line at the To question leaves the recorded source as it
\* is and asks for the target again, not for the source; a refused line at
\* the Amount question leaves both recorded currencies as they are and asks
\* for the amount again, not for a currency.
C17_RetriesKeepAcceptedValues ==
    [][ /\ (ReadsAt("askTo") /\ IsRefusedCurrency(lastRead'.line))
           => /\ result.currencyFrom \in KnownCodes
              /\ result'.currencyFrom = result.currencyFrom
              /\ pc' = "askTo"
              /\ printed'[Len(printed')] = Text("To: ")
              /\ \A i \in 1..Len(printed') :
                    printed'[i].text \notin {"From: ", "What do you want to convert?"}
        /\ (ReadsAt("askAmount") /\ ~IsAcceptedAmount(lastRead'.line))
           => /\ result.currencyFrom \in KnownCodes
              /\ result.currencyTo \in KnownCodes
              /\ result' = result
              /\ pc' = "askAmount"
              /\ printed'[Len(printed')] = Text("Amount: ")
              /\ \A i \in 1..Len(printed') :
                    printed'[i].text \notin {"From: ", "What do you want to convert?",
                                            "To: "} ]_vars

C17_Witness ==
    /\ pc = "askAmount"
    /\ lastRead = [at |-> "askAmount", line |-> <<>>, rejected |-> FALSE]
    /\ result = [currencyFrom |-> JPY, currencyTo |-> GBP]
    /\ printed = <<Text("The amount cannot be less than 1"), Text("Amount: ")>>

\* C18: a sub-flow starts only from the command question, where none is in
\* progress, and with an empty record; the record then holds just what the
\* From and the To question of this sub-flow accepted, and the result line
\* shows the currencies of that record and the amount just accepted, whatever
\* an earlier conversion of the session used; outside a sub-flow the record
\* is empty.
C18_ConversionStateIsLocal ==
    /\ [][ /\ (pc' = "askFrom" /\ pc # "askFrom")
              => /\ pc = "askForCommand"
                 /\ result' = [currencyFrom |-> <<>>, currencyTo |-> <<>>]
           /\ \A code \in KnownCodes :
                /\ (ReadsAt("askFrom") /\ DiffersOnlyInCase(lastRead'.line, code))
                   => result' = [currencyFrom |-> code, currencyTo |-> <<>>]
                /\ (ReadsAt("askTo") /\ DiffersOnlyInCase(lastRead'.line, code))
                   => result' = [currencyFrom |-> result.currencyFrom, currencyTo |-> code]
           /\ (ReadsAt("askAmount") /\ IsAcceptedAmount(lastRead'.line))
              => /\ printed'[1].text = "Result:"
                 /\ printed'[1].currencyFrom = result.currencyFrom
                 /\ printed'[1].currencyTo = result.currencyTo
                 /\ printed'[1].initialAmount = Number(lastRead'.line)
                 /\ lastConversion'.currencyFrom = result.currencyFrom
                 /\ lastConversion'.currencyTo = result.currencyTo
                 /\ lastConversion'.initialAmount = Number(lastRead'.line) ]_vars
    /\ [](/\ pc = "askForCommand" => result = [currencyFrom |-> <<>>, currencyTo |-> <<>>]
          /\ pc \in {"askForCommand", "askFrom", "askTo", "askAmount", "exited"})

C18_Witness ==
    /\ pc = "askForCommand"
    /\ lastConversion.echoOf
         = <<[currencyFrom |-> USD, currencyTo |-> JPY, initialAmount |-> Fin(1, 1)]>>
    /\ printed[1] = ConversionResult(JPY, USD, Fin(227, 2),
                                     <<"1", ".", "0", "0", "0", "0">>)
    /\ result = [currencyFrom |-> <<>>, currencyTo |-> <<>>]

\* the step starts a conversion: the From question is asked afresh
StartsConversion == pc' = "askFrom" /\ printed' = FromPrompt

\* C19 as stated: at each of the three questions of the sub-flow, no line read
\* ends the program, returns to the command menu or starts a conversion.
C19_NoLineLeavesSubflow ==
    [][ \A at \in {"askFrom", "askTo", "askAmount"} :
          ReadsAt(at)
          => /\ pc' # "exited"
             /\ pc' # "askForCommand"
             /\ ~StartsConversion ]_vars

\* C19, amended: at each of the three questions of the sub-flow no line read
\* ends the program or starts a conversion, and none returns to the command
\* menu except the line the Amount question accepts, after the result line of
\* the conversion it completes; "2" at the From and To questions is an unknown
\* currency, "1" and "2" at the Amount question are the amounts 1 and 2.
C19_CommandsOnlyAtCommandQuestion ==
    [][ \A at \in {"askFrom", "askTo", "askAmount"} :
          ReadsAt(at)
          => /\ pc' # "exited"
             /\ exitStatus' = <<>>
             /\ ~StartsConversion
             /\ pc' = "askForCommand"
                => /\ at = "askAmount"
                   /\ IsAcceptedAmount(lastRead'.line)
                   /\ printed'[1].text = "Result:"
                   /\ printed'[1].initialAmount = Number(lastRead'.line)
             /\ (at # "askAmount" /\ lastRead'.line \in {<<"1">>, <<"2">>})
                => pc' = at /\ printed'[1] = Text("Unknown currency")
             /\ (at = "askAmount" /\ lastRead'.line = <<"1">>)
                => printed'[1].initialAmount = Fin(1, 1)
             /\ (at = "askAmount" /\ lastRead'.line = <<"2">>)
                => printed'[1].initialAmount = Fin(2, 1) ]_vars

C19_Witness ==
    /\ pc = "askForCommand"
    /\ lastRead = [at |-> "askAmount", line |-> <<"2">>, rejected |-> FALSE]
    /\ printed[1].text = "Result:"
    /\ printed[1].initialAmount = Fin(2, 1)
    /\ exitStatus = <<>>

====
